---------------------------- MODULE Spec2Model ----------------------------
(***************************************************************************)
(* Model of arbitragelab/auto_arima/arima_predict.py:                      *)
(*   get_trend_order, AutoARIMAForecast.__init__,                          *)
(*   AutoARIMAForecast.get_best_arima_model, AutoARIMAForecast.predict.    *)
(*                                                                         *)
(* A pd.Series is a sequence of records [t |-> timestamp, v |-> value].    *)
(* Python objects that can be shared between the caller and the instance   *)
(* live in `heap`; `y_train` holds a reference into it.  The pmdarima      *)
(* collaborators (ADFTest.should_diff, auto_arima, ARIMA.fit_predict,      *)
(* ARIMA.predict) are opaque: their outcome is a nondeterministic choice,  *)
(* and every call made to them is recorded in `calls`.                     *)
(***************************************************************************)
EXTENDS Integers, Sequences, FiniteSets, TLC

(* ------------------------------ bounds -------------------------------- *)
\* longest training series handed to get_best_arima_model
MaxTrain == 2
\* longest out-of-sample series handed to predict
MaxOos == 6
\* largest retrain_freq handed to predict
MaxFreq == 2
\* number of operations (get_best_arima_model, predict) called on one instance
MaxOps == 2

(* --------------------------- option values ---------------------------- *)
\* Python None / a present value, as sequences of length 0 / 1
None == <<>>
Some(x) == <<x>>

(* ------------------------------ series -------------------------------- *)
\* a series of `len` points with timestamps t0+1 .. t0+len and values 1, 4, 9, ...
MkSeries(t0, len) == [j \in 1..len |-> [t |-> t0 + j, v |-> j * j]]

\* training series the caller may pass (length 0 included: an empty series)
TrainInputs == {MkSeries(0, len) : len \in 0..MaxTrain}

\* out-of-sample series the caller may pass; timestamps follow the training ones
OosInputs == {MkSeries(MaxTrain + 1, n) : n \in 0..MaxOos}

\* the values the caller writes over a series it owns
Overwritten(s) == [j \in 1..Len(s) |-> [t |-> s[j].t, v |-> 0 - s[j].v]]

\* retrain_freq arguments (0 stands for the non-positive ones)
FreqInputs == 0..MaxFreq

\* train_window arguments: None, or an integer (zero and larger than the history included)
WindowInputs == {None} \cup {Some(w) : w \in 0..(MaxTrain + 1)}

\* (start_p, start_q, max_p, max_q) arguments of the constructor
CfgInputs == {[start_p |-> 0, start_q |-> 0, max_p |-> 5, max_q |-> 5],
              [start_p |-> 1, start_q |-> 2, max_p |-> 3, max_q |-> 4]}

Max(a, b) == IF a >= b THEN a ELSE b
Min(a, b) == IF a <= b THEN a ELSE b

\* s.iloc[a:] with Python slice semantics (negative a counts from the end)
ILocFrom(s, a) ==
    LET start == IF a < 0 THEN Max(Len(s) + a, 0) ELSE Min(a, Len(s))
    IN  SubSeq(s, start + 1, Len(s))

\* s.iloc[:b] with Python slice semantics
ILocTo(s, b) ==
    LET stop == IF b < 0 THEN Max(Len(s) + b, 0) ELSE Min(b, Len(s))
    IN  SubSeq(s, 1, stop)

\* s.diff().dropna(): first differences, the leading undefined entry dropped
DiffDropna(s) ==
    [j \in 1..(Len(s) - 1) |-> [t |-> s[j + 1].t, v |-> s[j + 1].v - s[j].v]]

\* the body of `for _ in range(order): test_series = test_series.diff().dropna()`
RECURSIVE DiffTimes(_, _)
DiffTimes(s, n) == IF n <= 0 THEN s ELSE DiffTimes(DiffDropna(s), n - 1)

(* ------------------------------- state -------------------------------- *)
VARIABLES
    cfg,            \* self.start_p, self.start_q, self.max_p, self.max_q
    arima_model,    \* self.arima_model: None or Some(model state)
    y_train,        \* self.y_train: "None" or a reference into heap
    heap,           \* contents of the series objects: arg (the caller's), own (a copy)
    pc,             \* idle, trend, search, loop, done
    op,             \* the operation running or last run: none, fit, predict
    order,          \* get_trend_order: order
    trend_order,    \* get_best_arima_model: trend_order
    y,              \* predict: y
    retrain_freq,   \* predict: retrain_freq
    train_window,   \* predict: train_window
    i,              \* predict: loop index i
    retrain_idx,    \* predict: retrain_idx
    prediction,     \* predict: prediction
    result,         \* how the last operation ended
    calls,          \* collaborator calls made by the running / last operation
    nops,           \* operations called on the instance since the initial state
    entry_model,    \* self.arima_model when the running / last operation was entered
    entry_history   \* self.y_train and its contents when that operation was entered

vars == <<cfg, arima_model, y_train, heap, pc, op, order, trend_order, y,
          retrain_freq, train_window, i, retrain_idx, prediction, result,
          calls, nops, entry_model, entry_history>>

fitLocals == <<order, trend_order>>
predictLocals == <<y, retrain_freq, train_window, i, retrain_idx, prediction>>

NoResult == [kind |-> "none", err |-> "", value |-> <<>>]
Returned(val) == [kind |-> "returned", err |-> "", value |-> val]
Raised(e) == [kind |-> "raised", err |-> e, value |-> <<>>]

\* the series self.y_train refers to
TrainingHistory == IF y_train = "None" THEN <<>> ELSE heap[y_train]

(* ---------------------------- __init__ -------------------------------- *)
Init ==
    /\ cfg \in CfgInputs
    /\ arima_model = None
    /\ y_train = "None"
    /\ heap = [arg |-> <<>>, own |-> <<>>]
    /\ pc = "idle"
    /\ op = "none"
    /\ order = 0
    /\ trend_order = 0
    /\ y = <<>>
    /\ retrain_freq = 1
    /\ train_window = None
    /\ i = 0
    /\ retrain_idx = 0
    /\ prediction = <<>>
    /\ result = NoResult
    /\ calls = <<>>
    /\ nops = 0
    /\ entry_model = None
    /\ entry_history = [ref |-> "None", data |-> <<>>]

(* ------------------------ get_best_arima_model ------------------------ *)
\* the caller invokes get_best_arima_model(y_train); get_trend_order starts
FitCall(series) ==
    /\ pc = "idle"
    /\ nops < MaxOps
    /\ nops' = nops + 1
    /\ heap' = [heap EXCEPT !.arg = series]
    /\ pc' = "trend"
    /\ op' = "fit"
    /\ order' = 0
    /\ trend_order' = 0
    /\ result' = NoResult
    /\ calls' = <<>>
    /\ entry_model' = arima_model
    /\ entry_history' = [ref |-> y_train, data |-> TrainingHistory]
    /\ UNCHANGED <<cfg, arima_model, y_train, predictLocals>>

\* test_series of the current pass of get_trend_order's while loop
TestSeries == DiffTimes(heap.arg, order)

\* outcomes ADFTest.should_diff can have on a series: it cannot run on an empty one
AdfOutcomes(s) == IF Len(s) = 0 THEN {"error"} ELSE {"stationary", "needs_diff", "error"}

AdfCall(outcome) == [op |-> "should_diff", i |-> order, ctx |-> TestSeries,
                     ok |-> outcome # "error", arg |-> outcome]

\* a variant that would return the loop counter after its increment
TrendStationaryReturnsOrder ==
    /\ pc = "trend"
    /\ "stationary" \in AdfOutcomes(TestSeries)
    /\ calls' = Append(calls, AdfCall("stationary"))
    /\ trend_order' = order + 1
    /\ order' = order + 1
    /\ pc' = "search"
    /\ UNCHANGED <<cfg, arima_model, y_train, heap, op, predictLocals, result, nops,
                   entry_model, entry_history>>

\* should_diff says no further differencing: diff_order = order, the loop ends
TrendStationary ==
    /\ pc = "trend"
    /\ "stationary" \in AdfOutcomes(TestSeries)
    /\ calls' = Append(calls, AdfCall("stationary"))
    /\ trend_order' = order
    /\ order' = order + 1
    /\ pc' = "search"
    /\ UNCHANGED <<cfg, arima_model, y_train, heap, op, predictLocals, result, nops, entry_model, entry_history>>

\* should_diff says the series needs differencing: next order
TrendNeedsDiff ==
    /\ pc = "trend"
    /\ "needs_diff" \in AdfOutcomes(TestSeries)
    /\ calls' = Append(calls, AdfCall("needs_diff"))
    /\ order' = order + 1
    /\ UNCHANGED <<cfg, arima_model, y_train, heap, pc, op, trend_order, predictLocals,
                   result, nops, entry_model, entry_history>>

\* a variant that would catch the error and fall back to order 0
TrendErrorFallback ==
    /\ pc = "trend"
    /\ "error" \in AdfOutcomes(TestSeries)
    /\ calls' = Append(calls, AdfCall("error"))
    /\ trend_order' = 0
    /\ order' = order + 1
    /\ pc' = "search"
    /\ UNCHANGED <<cfg, arima_model, y_train, heap, op, predictLocals, result, nops,
                   entry_model, entry_history>>

\* should_diff raises: the exception leaves get_trend_order and get_best_arima_model
TrendError ==
    /\ pc = "trend"
    /\ "error" \in AdfOutcomes(TestSeries)
    /\ calls' = Append(calls, AdfCall("error"))
    /\ pc' = "done"
    /\ result' = Raised("StationarityTestError")
    /\ UNCHANGED <<cfg, arima_model, y_train, heap, op, fitLocals, predictLocals, nops, entry_model, entry_history>>

\* the reference y_train.copy() evaluates to: a new object
CopyOfSeries(ref) == "own"

\* arguments of the auto_arima call
SearchArgsCapWithoutD ==
    [y |-> heap.arg, d |-> trend_order, start_p |-> cfg.start_p, start_q |-> cfg.start_q,
     max_p |-> cfg.max_p, max_q |-> cfg.max_q, max_order |-> cfg.max_q + cfg.max_p]
SearchArgs ==
    [y |-> heap.arg, d |-> trend_order, start_p |-> cfg.start_p, start_q |-> cfg.start_q,
     max_p |-> cfg.max_p, max_q |-> cfg.max_q,
     max_order |-> cfg.max_q + cfg.max_p + trend_order]

SearchCall(okay) == [op |-> "auto_arima", i |-> 0, ctx |-> heap.arg, ok |-> okay,
                     arg |-> SearchArgs]

\* self.y_train = y_train.copy()
StoreHistory ==
    LET ref == CopyOfSeries("arg")
    IN  /\ y_train' = ref
        /\ heap' = [heap EXCEPT ![ref] = heap.arg]

\* self.y_train is stored, then auto_arima returns a model
FitSearchOk ==
    /\ pc = "search"
    /\ StoreHistory
    /\ arima_model' = Some([data |-> heap.arg, d |-> trend_order, by |-> "auto_arima"])
    /\ calls' = Append(calls, SearchCall(TRUE))
    /\ pc' = "done"
    /\ result' = Returned(<<>>)
    /\ UNCHANGED <<cfg, op, fitLocals, predictLocals, nops, entry_model, entry_history>>

\* self.y_train is stored, then auto_arima raises
FitSearchFail ==
    /\ pc = "search"
    /\ StoreHistory
    /\ calls' = Append(calls, SearchCall(FALSE))
    /\ pc' = "done"
    /\ result' = Raised("FitError")
    /\ UNCHANGED <<cfg, arima_model, op, fitLocals, predictLocals, nops, entry_model, entry_history>>

(* ------------------------------ predict ------------------------------- *)
\* prediction = pd.Series(index=y.index, dtype=np.float): one NaN entry per timestamp of y
IndexWithoutFirst(ys) == [j \in 1..(Len(ys) - 1) |-> [t |-> ys[j + 1].t, v |-> None]]
EmptyPrediction(ys) == [j \in 1..Len(ys) |-> [t |-> ys[j].t, v |-> None]]

\* the caller invokes predict(y, retrain_freq, train_window)
PredictCall(ys, freq, window) ==
    /\ pc = "idle"
    /\ nops < MaxOps
    /\ nops' = nops + 1
    /\ pc' = "loop"
    /\ op' = "predict"
    /\ y' = ys
    /\ retrain_freq' = freq
    /\ train_window' = window
    /\ prediction' = EmptyPrediction(ys)
    /\ retrain_idx' = 0
    /\ i' = 1
    /\ result' = NoResult
    /\ calls' = <<>>
    /\ entry_model' = arima_model
    /\ entry_history' = [ref |-> y_train, data |-> TrainingHistory]
    /\ UNCHANGED <<cfg, arima_model, y_train, heap, fitLocals>>

\* for i in range(1, y.shape[0]): is there a next i
InLoop == pc = "loop" /\ i < Len(y)

\* if retrain_idx >= retrain_freq
RetrainAfterInterval(idx, freq) == idx > freq
RetrainOneEarly(idx, freq) == idx + 1 >= freq
ShouldRetrain(idx, freq) == idx >= freq

\* retrain_idx += 1
NextCounter(idx) == idx + 1

\* the next value range(1, y.shape[0]) gives the loop variable
EveryOtherIndex(k) == k + 2
NextIndex(k) == k + 1

\* y.iloc[:i - 1]
PrefixThroughPrevious(ys, k) == ILocTo(ys, k)
OosPrefix(ys, k) == ILocTo(ys, k - 1)

\* self.y_train, or self.y_train.iloc[-train_window:]
TrainHead(train, window) ==
    IF window = None THEN train ELSE ILocTo(train, window[1])
TrainTail(train, window) ==
    IF window = None THEN train ELSE ILocFrom(train, -(window[1]))

\* a.append(b): the new series append returns
PrefixThenHistory == OosPrefix(y, i) \o TrainTail(TrainingHistory, train_window)
RetrainContext == TrainTail(TrainingHistory, train_window) \o OosPrefix(y, i)

\* a.append(b): what the receiver a holds afterwards (append builds a new object)
ExtendedInPlace(a, b) == a \o b
ReceiverAfterAppend(a, b) == a

\* the object self.y_train refers to after the context has been built from it
HistoryAfterContext ==
    IF train_window = None
    THEN ReceiverAfterAppend(TrainingHistory, OosPrefix(y, i))
    ELSE TrainingHistory

\* prediction.loc[y.index[i]] = value: every entry labelled y.index[i] is set
SetLoc(pred, label, value) ==
    [j \in 1..Len(pred) |-> IF pred[j].t = label THEN [t |-> label, v |-> Some(value)]
                            ELSE pred[j]]

ModelCall(name, okay) == [op |-> name, i |-> i, ctx |-> IF name = "fit_predict"
                                                       THEN RetrainContext ELSE <<>>,
                          ok |-> okay, arg |-> retrain_idx]

\* the model fit_predict leaves behind: the same orders, fit on the context
Refit(m, ctx) == [data |-> ctx, d |-> m.d, by |-> "fit_predict"]

\* a variant of the retrain branch that would refit a clone of the model
PredictRetrainOnClone ==
    /\ InLoop
    /\ arima_model # None
    /\ ShouldRetrain(retrain_idx, retrain_freq)
    /\ prediction' = SetLoc(prediction, y[i + 1].t, Refit(arima_model[1], RetrainContext))
    /\ heap' = [heap EXCEPT ![y_train] = HistoryAfterContext]
    /\ calls' = Append(calls, ModelCall("fit_predict", TRUE))
    /\ retrain_idx' = NextCounter(0)
    /\ i' = NextIndex(i)
    /\ UNCHANGED <<cfg, arima_model, y_train, pc, op, fitLocals, y, retrain_freq,
                   train_window, result, nops, entry_model, entry_history>>

\* a variant of the retrain branch without `retrain_idx = 0`
PredictRetrainNoReset ==
    /\ InLoop
    /\ arima_model # None
    /\ ShouldRetrain(retrain_idx, retrain_freq)
    /\ LET m == Refit(arima_model[1], RetrainContext)
       IN  /\ arima_model' = Some(m)
           /\ prediction' = SetLoc(prediction, y[i + 1].t, m)
    /\ heap' = [heap EXCEPT ![y_train] = HistoryAfterContext]
    /\ calls' = Append(calls, ModelCall("fit_predict", TRUE))
    /\ retrain_idx' = NextCounter(retrain_idx)
    /\ i' = NextIndex(i)
    /\ UNCHANGED <<cfg, y_train, pc, op, fitLocals, y, retrain_freq, train_window, result,
                   nops, entry_model, entry_history>>

\* the retrain branch: fit_predict on the context returns a forecast
PredictRetrain ==
    /\ InLoop
    /\ arima_model # None
    /\ ShouldRetrain(retrain_idx, retrain_freq)
    /\ LET m == Refit(arima_model[1], RetrainContext)
       IN  /\ arima_model' = Some(m)
           /\ prediction' = SetLoc(prediction, y[i + 1].t, m)
    /\ heap' = [heap EXCEPT ![y_train] = HistoryAfterContext]
    /\ calls' = Append(calls, ModelCall("fit_predict", TRUE))
    /\ retrain_idx' = NextCounter(0)
    /\ i' = NextIndex(i)
    /\ UNCHANGED <<cfg, y_train, pc, op, fitLocals, y, retrain_freq, train_window, result,
                   nops, entry_model, entry_history>>

\* a handler that would swallow the refit error and go on with the next index
PredictRetrainSwallow ==
    /\ InLoop
    /\ arima_model # None
    /\ ShouldRetrain(retrain_idx, retrain_freq)
    /\ calls' = Append(calls, ModelCall("fit_predict", FALSE))
    /\ retrain_idx' = 0 + 1
    /\ i' = i + 1
    /\ UNCHANGED <<cfg, arima_model, y_train, heap, pc, op, fitLocals, y, retrain_freq,
                   train_window, prediction, result, nops, entry_model, entry_history>>

\* the retrain branch: fit_predict raises, the exception leaves predict
PredictRetrainFail ==
    /\ InLoop
    /\ arima_model # None
    /\ ShouldRetrain(retrain_idx, retrain_freq)
    /\ arima_model' \in {arima_model, Some(Refit(arima_model[1], RetrainContext))}
    /\ heap' = [heap EXCEPT ![y_train] = HistoryAfterContext]
    /\ calls' = Append(calls, ModelCall("fit_predict", FALSE))
    /\ retrain_idx' = 0
    /\ pc' = "done"
    /\ result' = Raised("FitError")
    /\ UNCHANGED <<cfg, y_train, op, fitLocals, y, retrain_freq, train_window, i,
                   prediction, nops, entry_model, entry_history>>

\* a variant of the else branch that would refit before it forecasts
PredictForecastRefits ==
    /\ InLoop
    /\ arima_model # None
    /\ ~ShouldRetrain(retrain_idx, retrain_freq)
    /\ LET m == Refit(arima_model[1], RetrainContext)
       IN  /\ arima_model' = Some(m)
           /\ prediction' = SetLoc(prediction, y[i + 1].t, m)
    /\ calls' = Append(calls, ModelCall("fit_predict", TRUE))
    /\ retrain_idx' = NextCounter(retrain_idx)
    /\ i' = NextIndex(i)
    /\ UNCHANGED <<cfg, y_train, heap, pc, op, fitLocals, y, retrain_freq, train_window,
                   result, nops, entry_model, entry_history>>

\* the else branch: a forecast from the model as it is
PredictForecast ==
    /\ InLoop
    /\ arima_model # None
    /\ ~ShouldRetrain(retrain_idx, retrain_freq)
    /\ prediction' = SetLoc(prediction, y[i + 1].t, arima_model[1])
    /\ calls' = Append(calls, ModelCall("predict", TRUE))
    /\ retrain_idx' = NextCounter(retrain_idx)
    /\ i' = NextIndex(i)
    /\ UNCHANGED <<cfg, arima_model, y_train, heap, pc, op, fitLocals, y, retrain_freq,
                   train_window, result, nops, entry_model, entry_history>>

\* self.arima_model is None: looking up fit_predict / predict on it raises
PredictNoModel ==
    /\ InLoop
    /\ arima_model = None
    /\ pc' = "done"
    /\ result' = Raised("AttributeError")
    /\ UNCHANGED <<cfg, arima_model, y_train, heap, op, fitLocals, predictLocals, calls,
                   nops, entry_model, entry_history>>

\* the loop is exhausted: return prediction
PredictReturn ==
    /\ pc = "loop"
    /\ ~(i < Len(y))
    /\ pc' = "done"
    /\ result' = Returned(prediction)
    /\ UNCHANGED <<cfg, arima_model, y_train, heap, op, fitLocals, predictLocals, calls,
                   nops, entry_model, entry_history>>

(* ------------------------------ caller -------------------------------- *)
\* the caller has received the outcome of the operation
Ack ==
    /\ pc = "done"
    /\ pc' = "idle"
    /\ op' = "none"
    /\ order' = 0
    /\ trend_order' = 0
    /\ y' = <<>>
    /\ retrain_freq' = 1
    /\ train_window' = None
    /\ i' = 0
    /\ retrain_idx' = 0
    /\ prediction' = <<>>
    /\ result' = NoResult
    /\ calls' = <<>>
    /\ entry_model' = None
    /\ entry_history' = [ref |-> "None", data |-> <<>>]
    /\ UNCHANGED <<cfg, arima_model, y_train, heap, nops>>

\* the caller writes new values into the series object it passed to fit
CallerMutate ==
    /\ pc = "idle"
    /\ heap.arg \in TrainInputs
    /\ Len(heap.arg) > 0
    /\ heap' = [heap EXCEPT !.arg = Overwritten(heap.arg)]
    /\ UNCHANGED <<cfg, arima_model, y_train, pc, op, fitLocals, predictLocals, result,
                   calls, nops, entry_model, entry_history>>

Next ==
    \/ \E series \in TrainInputs : FitCall(series)
    \/ TrendStationary
    \/ TrendNeedsDiff
    \/ TrendError
    \/ FitSearchOk
    \/ FitSearchFail
    \/ \E ys \in OosInputs, freq \in FreqInputs, window \in WindowInputs :
           PredictCall(ys, freq, window)
    \/ PredictRetrain
    \/ PredictRetrainFail
    \/ PredictForecast
    \/ PredictNoModel
    \/ PredictReturn
    \/ Ack
    \/ CallerMutate

Spec == Init /\ [][Next]_vars

\* one pass of predict's loop, or its return
PredictStep ==
    \/ PredictRetrain
    \/ PredictRetrainFail
    \/ PredictForecast
    \/ PredictNoModel
    \/ PredictReturn

(* ------------------- predict calls on a fitted instance ---------------- *)
\* the instance as a get_best_arima_model call that returned leaves it: the
\* history is a copy of the series, the model is auto_arima's, with a trend order
\* get_trend_order can return for that series
InitFitted ==
    /\ cfg \in CfgInputs
    /\ \E series \in TrainInputs :
           /\ Len(series) > 0
           /\ heap = [arg |-> series, own |-> series]
           /\ \E d \in 0..(Len(series) - 1) :
                  arima_model = Some([data |-> series, d |-> d, by |-> "auto_arima"])
    /\ y_train = "own"
    /\ pc = "idle"
    /\ op = "none"
    /\ order = 0
    /\ trend_order = 0
    /\ y = <<>>
    /\ retrain_freq = 1
    /\ train_window = None
    /\ i = 0
    /\ retrain_idx = 0
    /\ prediction = <<>>
    /\ result = NoResult
    /\ calls = <<>>
    /\ nops = 0
    /\ entry_model = None
    /\ entry_history = [ref |-> "None", data |-> <<>>]

\* predict calls, one after the other
NextPredict ==
    \/ \E ys \in OosInputs, freq \in FreqInputs, window \in WindowInputs :
           PredictCall(ys, freq, window)
    \/ PredictRetrain
    \/ PredictRetrainFail
    \/ PredictForecast
    \/ PredictReturn
    \/ Ack

SpecFitted == InitFitted /\ [][NextPredict]_vars

(* ============================ properties ============================== *)
\* positions in `calls` of the calls to the collaborator operation `name`
CallsOf(name) == {j \in DOMAIN calls : calls[j].op = name}
\* out-of-sample indices i at which predict has refit the model
RetrainSteps == {calls[j].i : j \in CallsOf("fit_predict")}
\* out-of-sample indices i at which predict has forecast without refitting
ForecastSteps == {calls[j].i : j \in CallsOf("predict")}
PredictDone == pc = "done" /\ op = "predict"
PredictReturned == PredictDone /\ result.kind = "returned"
Ceil(a, b) == (a + b - 1) \div b

C2_Original ==
    (PredictReturned /\ Len(y) >= 2 /\ retrain_freq = 1) =>
        /\ RetrainSteps = 1..(Len(y) - 1)
        /\ Cardinality(CallsOf("fit_predict")) = Len(y) - 1
        /\ CallsOf("predict") = {}

\* C2 amended: with retrain_freq = 1, in a predict call that returns, index 1 is
\* forecast without a refit (model.predict, once) and every index i in
\* 2..len(y)-1 is one fit_predict call, so there are len(y) - 2 refits.
C2_RetrainEveryStepButFirst ==
    (PredictReturned /\ Len(y) >= 2 /\ retrain_freq = 1) =>
        /\ Len(calls) = Len(y) - 1
        /\ calls[1].op = "predict" /\ calls[1].i = 1
        /\ \A j \in 2..(Len(y) - 1) : calls[j].op = "fit_predict" /\ calls[j].i = j
        /\ Cardinality(CallsOf("fit_predict")) = Len(y) - 2

C2_Witness ==
    /\ PredictReturned
    /\ retrain_freq = 1
    /\ Len(y) >= 4

\* C3 as stated: with retrain_freq = k > 1 there are ceil((n-1)/k) refits, at
\* out-of-sample indices 1, k+1, 2k+1, ...
C3_Original ==
    (PredictReturned /\ Len(y) >= 2 /\ retrain_freq > 1) =>
        /\ Cardinality(CallsOf("fit_predict")) = Ceil(Len(y) - 1, retrain_freq)
        /\ RetrainSteps = {k \in 1..(Len(y) - 1) : (k - 1) % retrain_freq = 0}

\* C3 amended: with retrain_freq = k > 1, a predict call that returns performs
\* ceil((n-1)/k) - 1 refits, at out-of-sample indices k+1, 2k+1, ... (loop steps
\* k, 2k, ...); index 1 and every other index is a no-refit forecast.
C3_RetrainEveryKthStep ==
    (PredictReturned /\ Len(y) >= 2 /\ retrain_freq > 1) =>
        /\ Cardinality(CallsOf("fit_predict")) = Ceil(Len(y) - 1, retrain_freq) - 1
        /\ RetrainSteps = {k \in 2..(Len(y) - 1) : (k - 1) % retrain_freq = 0}
        /\ ForecastSteps = (1..(Len(y) - 1)) \ RetrainSteps
        /\ Len(calls) = Len(y) - 1

C3_Witness ==
    /\ PredictReturned
    /\ retrain_freq = 2
    /\ RetrainSteps = {3, 5}

\* C4: no look-ahead: the series handed to a refit at out-of-sample index i holds
\* no out-of-sample entry of index >= i - 1.
C4_NoLookAhead ==
    op = "predict" =>
        \A j \in CallsOf("fit_predict") :
            \A e \in 1..Len(calls[j].ctx) :
                \A m \in (calls[j].i - 1)..(Len(y) - 1) : calls[j].ctx[e] # y[m + 1]

C4_Witness ==
    /\ op = "predict"
    /\ \E j \in CallsOf("fit_predict") :
           /\ calls[j].i >= 3
           /\ \E e \in 1..Len(calls[j].ctx) : calls[j].ctx[e] = y[1]

\* C5: with train_window = w, 1 <= w <= len(y_train), the context of a refit at
\* index i is the last w points of y_train followed by y[0 .. i-2]: w + (i-1) points.
C5_WindowContext ==
    (/\ op = "predict"
     /\ train_window # None
     /\ train_window[1] >= 1
     /\ train_window[1] <= Len(TrainingHistory)) =>
        \A j \in CallsOf("fit_predict") :
            /\ calls[j].ctx =
                   SubSeq(TrainingHistory, Len(TrainingHistory) - train_window[1] + 1,
                          Len(TrainingHistory))
                   \o SubSeq(y, 1, calls[j].i - 1)
            /\ Len(calls[j].ctx) = train_window[1] + (calls[j].i - 1)

C5_Witness ==
    /\ op = "predict"
    /\ train_window = Some(1)
    /\ Len(TrainingHistory) = 2
    /\ \E j \in CallsOf("fit_predict") : calls[j].i >= 3

\* C6 as stated: predict on an instance that was never fit ends in an input
\* error, whatever the arguments.
C6_PredictBeforeFitRejected ==
    (PredictDone /\ entry_model = None) =>
        result.kind = "raised" /\ result.err = "InputError"

\* the arguments of the running predict call break a precondition of predict
InvalidPredictArgs ==
    \/ retrain_freq < 1
    \/ train_window # None /\ ~(train_window[1] >= 1 /\ train_window[1] <= Len(TrainingHistory))
    \/ Len(y) < 2

\* C7 as stated: after a fit, a predict call with invalid arguments ends in an
\* input error, without any collaborator call and with the model unchanged.
C7_InvalidArgsRejected ==
    (PredictDone /\ entry_model # None /\ InvalidPredictArgs) =>
        /\ result.kind = "raised" /\ result.err = "InputError"
        /\ calls = <<>>
        /\ arima_model = entry_model

\* C8 as stated: as long as no fit has succeeded, arima_model and y_train are
\* both unset.
C8_BothEmptyUntilFitSucceeds ==
    arima_model = None => y_train = "None"

\* C9: y_train is a copy taken at fit time: a fit that returns leaves it equal to
\* the series passed, and no step of a predict call and no write of the caller to
\* its own series changes it, nor the search bounds.
C9_HistoryFrame ==
    [][/\ (pc' = "done" /\ op' = "fit" /\ result'.kind = "returned")
            => TrainingHistory' = calls'[Len(calls')].ctx
       /\ (op = "predict" \/ op' = "predict" \/ (pc = "idle" /\ pc' = "idle"))
            => (TrainingHistory' = TrainingHistory /\ y_train' = y_train /\ cfg' = cfg)]_vars

C9_Witness ==
    /\ PredictDone
    /\ train_window = None
    /\ RetrainSteps # {}
    /\ \E j \in CallsOf("fit_predict") : Len(calls[j].ctx) > Len(TrainingHistory)
    /\ Len(TrainingHistory) > 0
    /\ heap.arg # TrainingHistory

\* C10: a refit that fails ends the predict call there and then: it is the last
\* collaborator call, and the call ends with that error and no prediction.
C10_RefitFailureFatal ==
    \A j \in DOMAIN calls :
        (calls[j].op = "fit_predict" /\ ~calls[j].ok) =>
            /\ j = Len(calls)
            /\ pc = "done"
            /\ result = Raised("FitError")

C10_Witness ==
    /\ PredictDone
    /\ result = Raised("FitError")
    /\ i >= 3
    /\ i < Len(y) - 1
    /\ \E j \in 2..Len(prediction) : prediction[j].v # None
\* C11: get_trend_order returns the minimal passing order: when it returns d, the
\* test was run once on each of the series differenced 0, 1, ..., d times, it said
\* "needs differencing" for every order below d and "no further differencing" at
\* d; for d = 0 that is a single test, on the undifferenced series.
C11_MinimalPassingOrder ==
    pc = "search" =>
        /\ Len(calls) = trend_order + 1
        /\ \A j \in 1..(trend_order + 1) :
               /\ calls[j].op = "should_diff"
               /\ calls[j].i = j - 1
               /\ calls[j].ctx = DiffTimes(heap.arg, j - 1)
               /\ Len(calls[j].ctx) = Len(heap.arg) - (j - 1)
               /\ calls[j].arg = IF j <= trend_order THEN "needs_diff" ELSE "stationary"
        /\ calls[1].ctx = heap.arg

C11_Witness ==
    /\ pc = "search"
    /\ trend_order >= 1
    /\ calls[1].arg = "needs_diff"

\* C12: a stationarity test that fails ends get_best_arima_model there and then:
\* it is the last collaborator call, the call ends with that error, auto_arima is
\* never called, and arima_model and y_train are as they were on entry.
C12_TestFailureSurfaces ==
    \A j \in DOMAIN calls :
        (calls[j].op = "should_diff" /\ ~calls[j].ok) =>
            /\ j = Len(calls)
            /\ pc = "done"
            /\ op = "fit"
            /\ result = Raised("StationarityTestError")
            /\ CallsOf("auto_arima") = {}
            /\ arima_model = entry_model
            /\ y_train = entry_history.ref
            /\ TrainingHistory = entry_history.data

C12_Witness ==
    /\ pc = "done"
    /\ op = "fit"
    /\ result = Raised("StationarityTestError")
    /\ Len(calls) >= 2
    /\ entry_model # None
    /\ heap.arg # TrainingHistory
\* two refits with no refit between them
ConsecutiveRetrains(a, b) ==
    /\ a \in CallsOf("fit_predict")
    /\ b \in CallsOf("fit_predict")
    /\ a < b
    /\ \A c \in CallsOf("fit_predict") : ~(a < c /\ c < b)

\* C13: with train_window = None the context of a refit at index i is the whole
\* of y_train followed by y[0 .. i-2], len(y_train) + (i-1) points; with
\* retrain_freq >= 1 it grows by retrain_freq points from one refit to the next.
C13_UnboundedContext ==
    (op = "predict" /\ train_window = None) =>
        /\ \A j \in CallsOf("fit_predict") :
               /\ calls[j].ctx = TrainingHistory \o SubSeq(y, 1, calls[j].i - 1)
               /\ Len(calls[j].ctx) = Len(TrainingHistory) + (calls[j].i - 1)
        /\ retrain_freq >= 1 =>
               \A a, b \in DOMAIN calls :
                   ConsecutiveRetrains(a, b) =>
                       Len(calls[b].ctx) = Len(calls[a].ctx) + retrain_freq

C13_Witness ==
    /\ op = "predict"
    /\ train_window = None
    /\ retrain_freq = 2
    /\ Len(TrainingHistory) = 2
    /\ \E a, b \in DOMAIN calls : ConsecutiveRetrains(a, b) /\ calls[a].i = 3
\* C14: a predict step taken while retrain_idx < retrain_freq makes exactly one
\* collaborator call, the no-refit forecast; it leaves arima_model as it was and
\* stores the forecast of that model, which is the one the previous index got.
C14_ForecastStepFrame ==
    [][(/\ pc = "loop"
        /\ i < Len(y)
        /\ arima_model # None
        /\ retrain_idx < retrain_freq) =>
           /\ arima_model' = arima_model
           /\ Len(calls') = Len(calls) + 1
           /\ SubSeq(calls', 1, Len(calls)) = calls
           /\ calls'[Len(calls')].op = "predict"
           /\ prediction'[i + 1].t = y[i + 1].t
           /\ prediction'[i + 1].v = Some(arima_model[1])
           /\ (i >= 2 => prediction'[i + 1].v = prediction[i].v)]_vars

C14_Witness ==
    /\ op = "predict"
    /\ retrain_freq = 2
    /\ \E j \in CallsOf("fit_predict") :
           /\ j < Len(calls)
           /\ calls[j + 1].op = "predict"
           /\ prediction[calls[j + 1].i + 1].v = prediction[calls[j].i + 1].v
\* C15: a fit that gets past get_trend_order calls auto_arima exactly once, as its
\* last collaborator call, with the training series, the d get_trend_order
\* returned, start_p, start_q, max_p, max_q of the instance and
\* max_order = max_p + max_q + d; when it returns, its model is arima_model.
C15_SearchCall ==
    (pc = "done" /\ op = "fit") =>
        IF result = Raised("StationarityTestError")
        THEN CallsOf("auto_arima") = {}
        ELSE LET n == Len(calls)
                 d == calls[n - 1].i
             IN  /\ n >= 2
                 /\ CallsOf("auto_arima") = {n}
                 /\ calls[n - 1].op = "should_diff" /\ calls[n - 1].arg = "stationary"
                 /\ calls[n].arg = [y |-> heap.arg, d |-> d,
                                    start_p |-> cfg.start_p, start_q |-> cfg.start_q,
                                    max_p |-> cfg.max_p, max_q |-> cfg.max_q,
                                    max_order |-> cfg.max_p + cfg.max_q + d]
                 /\ result.kind = "returned" =>
                        /\ calls[n].ok
                        /\ arima_model = Some([data |-> heap.arg, d |-> d,
                                               by |-> "auto_arima"])

C15_Witness ==
    /\ pc = "done"
    /\ op = "fit"
    /\ result.kind = "returned"
    /\ trend_order = 1
    /\ cfg.start_p = 1
    /\ entry_model # None
    /\ arima_model # entry_model
\* C16: for retrain_freq = k >= 1 the counter is within 0..k whenever the loop
\* tests it, it is 0 when the first index of a predict call is tested, it is 1
\* right after a refit, and two consecutive refits of one call are k indices apart.
C16_RetrainCounter ==
    (op = "predict" /\ retrain_freq >= 1) =>
        /\ pc = "loop" => (0 <= retrain_idx /\ retrain_idx <= retrain_freq)
        /\ (pc = "loop" /\ i = 1) => (retrain_idx = 0 /\ calls = <<>>)
        /\ (pc = "loop" /\ calls # <<>> /\ calls[Len(calls)].op = "fit_predict")
               => retrain_idx = 1
        /\ \A a, b \in DOMAIN calls :
               ConsecutiveRetrains(a, b) => calls[b].i - calls[a].i = retrain_freq

C16_Witness ==
    /\ op = "predict"
    /\ pc = "loop"
    /\ retrain_freq = 2
    /\ retrain_idx = 1
    /\ calls # <<>>
    /\ calls[Len(calls)].op = "fit_predict"
    /\ \E a, b \in DOMAIN calls : ConsecutiveRetrains(a, b)
\* the last refit of the running / last predict call
LastRetrain == CHOOSE j \in CallsOf("fit_predict") : \A k \in CallsOf("fit_predict") : k <= j

\* when a predict call returns, arima_model is what its last refit left, or the
\* model it was entered with if it made none
ModelAtReturn ==
    PredictReturned =>
        arima_model = IF CallsOf("fit_predict") = {} THEN entry_model
                      ELSE Some([data |-> calls[LastRetrain].ctx, d |-> entry_model[1].d,
                                 by |-> "fit_predict"])

\* the forecasts a predict call makes before its first refit are those of the
\* model it was entered with
EarlyForecastsFromEntryModel ==
    op = "predict" =>
        \A j \in CallsOf("predict") :
            (\A r \in CallsOf("fit_predict") : j < r) =>
                prediction[calls[j].i + 1].v = entry_model

\* C17: the model carries over between operations: a predict call is entered with
\* the model the previous operation left, its forecasts before its first refit
\* come from that model, and when it returns the model is the one its last refit
\* left (the entry model if it made none).
C17_ModelCarriesOver ==
    [][/\ ModelAtReturn'
       /\ EarlyForecastsFromEntryModel'
       /\ (pc = "idle" /\ pc' = "loop") => (entry_model' = arima_model /\ arima_model' = arima_model)
       /\ pc = "done" => arima_model' = arima_model]_vars

C17_Witness ==
    /\ op = "predict"
    /\ nops = 2
    /\ entry_model # None
    /\ entry_model[1].by = "fit_predict"
    /\ Len(entry_model[1].data) > Len(TrainingHistory)
    /\ Len(calls) >= 3
    /\ calls[1].op = "predict"
    /\ calls[2].op = "predict"
    /\ prediction[3].v = entry_model
    /\ calls[3].op = "fit_predict"
    /\ arima_model # entry_model

\* the running predict call has made one collaborator call, a refit or a no-refit
\* forecast, for each of the indices 1 .. i-1, in increasing order
OneCallPerIndex ==
    (op = "predict" /\ pc = "loop") =>
        /\ Len(calls) = i - 1
        /\ i <= Max(Len(y), 1)
        /\ \A j \in 1..Len(calls) :
               /\ calls[j].i = j
               /\ calls[j].op \in {"fit_predict", "predict"}
               /\ calls[j].ok

\* a predict call that returns has gone through max(len(y) - 1, 0) iterations,
\* one collaborator call for each index 1 .. len(y)-1 in increasing order
IterationsAtReturn ==
    PredictReturned =>
        /\ Len(calls) = Max(Len(y) - 1, 0)
        /\ \A j \in 1..Len(calls) :
               /\ calls[j].i = j
               /\ calls[j].op \in {"fit_predict", "predict"}
               /\ calls[j].ok
        /\ Len(result.value) = Len(y)

\* a step of a running predict call either ends the call or is one iteration: it
\* moves to the next index and makes one collaborator call, for the index it leaves
LoopStepProgress ==
    (op = "predict" /\ pc = "loop") =>
        \/ pc' = "done"
        \/ /\ pc' = "loop"
           /\ i' = i + 1
           /\ i' <= Len(y)
           /\ Len(calls') = Len(calls) + 1
           /\ SubSeq(calls', 1, Len(calls)) = calls
           /\ calls'[Len(calls')].i = i

\* C18: predict terminates: while it runs a next step is always possible, each
\* step is the last one or moves i one index closer to len(y); a call that
\* returns has made exactly max(len(y) - 1, 0) iterations, over the indices
\* 1, 2, ..., len(y)-1 in increasing order, with one collaborator call in each.
C18_PredictTerminates ==
    /\ []OneCallPerIndex
    /\ []IterationsAtReturn
    /\ []((op = "predict" /\ pc = "loop") => ENABLED PredictStep)
    /\ [][LoopStepProgress]_vars

C18_Witness ==
    /\ PredictReturned
    /\ Len(y) = MaxOos
    /\ Len(calls) = MaxOos - 1
    /\ CallsOf("fit_predict") # {}
    /\ CallsOf("predict") # {}
=============================================================================
